---- MODULE Spec2Model ----
(***************************************************************************)
(* Verification model of the RTRWH backend (rooftop rainwater harvesting   *)
(* advisory tool): the assessment calculators of                           *)
(* backend/app/services/calculators.py, the fetches of                     *)
(* backend/app/services/gis_clients.py, the handlers create_assessment,    *)
(* list_assessments and get_assessment of                                  *)
(* backend/app/routers/assessments.py, the middlewares of                  *)
(* backend/app/middleware, the streaming handler of                        *)
(* backend/app/routers/chat.py and the gamification handlers of            *)
(* backend/app/routers/groundwater.py.                                     *)
(*                                                                         *)
(* Numbers.  Python floats are modelled as rationals <<n, d>> (d > 0, in   *)
(* lowest terms).  Every float operation of the source is an exact         *)
(* rational operation followed by Fl, the rounding of the result to the    *)
(* float format.  The variable prec selects the format: prec = 0 is exact  *)
(* arithmetic (Fl is the identity), prec = p > 0 is a binary float with a  *)
(* p-bit significand and round-to-nearest-even, i.e. IEEE-754 arithmetic   *)
(* with the 53-bit significand of a Python float scaled down to p bits.    *)
(***************************************************************************)
EXTENDS Integers, Sequences, FiniteSets, Bags, TLC

VARIABLES prec, call, prev, users, assessments, req, subs, reads,
          now, request_counts, inflight, event, passed,
          chat, user_points, user_badges, leaderboard, awards, board

vars == <<prec, call, prev, users, assessments, req, subs, reads,
          now, request_counts, inflight, event, passed,
          chat, user_points, user_badges, leaderboard, awards, board>>

calcVars == <<prec, call, prev>>

apiVars == <<users, assessments, req, subs, reads>>

httpVars == <<now, request_counts, inflight, event, passed>>

chatVars == <<chat>>

boardVars == <<user_points, user_badges, leaderboard, awards, board>>

webVars == <<httpVars, chatVars, boardVars>>

----------------------------------------------------------------------------
(* Rational arithmetic *)

Abs(x) == IF x < 0 THEN -x ELSE x

RECURSIVE GCD(_, _)
GCD(a, b) == IF b = 0 THEN a ELSE GCD(b, a % b)

Pow(b, k) == LET RECURSIVE P(_)
                 P(i) == IF i = 0 THEN 1 ELSE b * P(i - 1)
             IN P(k)

Norm(n, d) == LET g == GCD(Abs(n), Abs(d))
                  s == IF d < 0 THEN -1 ELSE 1
              IN <<s * (n \div g), s * (d \div g)>>

R(n) == <<n, 1>>

RNeg(a) == <<-a[1], a[2]>>

RMulX(a, b) == LET g1 == GCD(Abs(a[1]), b[2])
                   g2 == GCD(Abs(b[1]), a[2])
               IN <<(a[1] \div g1) * (b[1] \div g2), (a[2] \div g2) * (b[2] \div g1)>>

RInv(a) == IF a[1] < 0 THEN <<-a[2], -a[1]>> ELSE <<a[2], a[1]>>

RDivX(a, b) == RMulX(a, RInv(b))

RAddX(a, b) == LET g == GCD(a[2], b[2])
               IN Norm(a[1] * (b[2] \div g) + b[1] * (a[2] \div g), (a[2] \div g) * b[2])

RSubX(a, b) == RAddX(a, RNeg(b))

(* a < b: by the integer parts, then by the fractional parts *)
RLt(a, b) ==
    LET g == GCD(a[2], b[2])
    IN \/ a[1] \div a[2] < b[1] \div b[2]
       \/ /\ a[1] \div a[2] = b[1] \div b[2]
          /\ (a[1] % a[2]) * (b[2] \div g) < (b[1] % b[2]) * (a[2] \div g)

RLe(a, b) == ~RLt(b, a)

RAbs(a) == <<Abs(a[1]), a[2]>>

(* floor(n * s / d) and the remainder, without forming n * s *)
ScaledFloor(n, d, s) == (n \div d) * s + (((n % d) * s) \div d)

ScaledRem(n, d, s) == ((n % d) * s) % d

(* nearest integer to n * s / d, ties to even *)
NearestEven(n, d, s) ==
    LET q == ScaledFloor(n, d, s)
        r == ScaledRem(n, d, s)
    IN IF 2 * r < d THEN q
       ELSE IF 2 * r > d THEN q + 1
       ELSE IF q % 2 = 0 THEN q ELSE q + 1

----------------------------------------------------------------------------
(* Float format *)

(* the significand of a / d shifted left until it has p bits:              *)
(* <<q, r, s>> with a * 2^s = q * d + r, 0 <= r < d, q >= 2^(p-1)          *)
RECURSIVE ShiftLeft(_, _, _, _, _)
ShiftLeft(q, r, s, d, p) ==
    IF q >= Pow(2, p - 1) THEN <<q, r, s>>
    ELSE ShiftLeft(2 * q + (IF 2 * r >= d THEN 1 ELSE 0), (2 * r) % d, s + 1, d, p)

(* the least e with a / (d * 2^e) < 2^p *)
RECURSIVE ShiftRight(_, _, _)
ShiftRight(q, e, p) ==
    IF q < Pow(2, p) THEN e ELSE ShiftRight(q \div 2, e + 1, p)

RoundBits(x, p) ==
    LET a == Abs(x[1])
        d == x[2]
        sg == IF x[1] < 0 THEN -1 ELSE 1
    IN IF a = 0 THEN x
       ELSE IF a \div d >= Pow(2, p - 1)
            THEN LET e == ShiftRight(a \div d, 0, p)
                     m == NearestEven(a, d * Pow(2, e), 1)
                 IN <<sg * m * Pow(2, e), 1>>
            ELSE LET t == ShiftLeft(a \div d, a % d, 0, d, p)
                     m == IF 2 * t[2] < d THEN t[1]
                          ELSE IF 2 * t[2] > d THEN t[1] + 1
                          ELSE IF t[1] % 2 = 0 THEN t[1] ELSE t[1] + 1
                 IN Norm(sg * m, Pow(2, t[3]))

Fl(x) == IF prec = 0 THEN x ELSE RoundBits(x, prec)

(* a decimal literal n / d of the source text *)
Lit(n, d) == Fl(Norm(n, d))

RMul(a, b) == Fl(RMulX(a, b))

RDiv(a, b) == Fl(RDivX(a, b))

RAdd(a, b) == Fl(RAddX(a, b))

(* Python's max(a, b): b if b > a else a *)
RMax(a, b) == IF RLt(a, b) THEN b ELSE a

(* Python's min(a, b): b if b < a else a *)
RMin(a, b) == IF RLt(b, a) THEN b ELSE a

(* Python's round(x, ndigits) on a float *)
round(x, ndigits) == Fl(Norm(NearestEven(x[1], x[2], Pow(10, ndigits)), Pow(10, ndigits)))

----------------------------------------------------------------------------
(* backend/app/services/calculators.py *)

(* variant: the product rounded to 2 decimals *)
estimate_runoff_liters_rounded(annual_rainfall_mm, roof_area_m2, runoff_coefficient) ==
    round(RMul(RMul(annual_rainfall_mm, roof_area_m2), runoff_coefficient), 2)

estimate_runoff_liters(annual_rainfall_mm, roof_area_m2, runoff_coefficient) ==
    RMul(RMul(annual_rainfall_mm, roof_area_m2), runoff_coefficient)

(* variant: the roof-area rule tried before the shallow-groundwater rule *)
recommend_structure_type_pit_first(roof_area_m2, open_space_area_m2, gw_depth_m) ==
    IF RLt(roof_area_m2, R(120)) THEN "pit"
    ELSE IF RLt(gw_depth_m, R(5)) /\ RLe(R(20), open_space_area_m2) THEN "trench"
    ELSE IF RLe(R(300), roof_area_m2) /\ RLe(R(10), gw_depth_m) THEN "recharge_well"
    ELSE "shaft"

recommend_structure_type(roof_area_m2, open_space_area_m2, gw_depth_m) ==
    IF RLt(gw_depth_m, R(5)) /\ RLe(R(20), open_space_area_m2) THEN "trench"
    ELSE IF RLt(roof_area_m2, R(120)) THEN "pit"
    ELSE IF RLe(R(300), roof_area_m2) /\ RLe(R(10), gw_depth_m) THEN "recharge_well"
    ELSE "shaft"

(* liters of storage per metre of depth as suggest_dimensions computes the  *)
(* divisor of its depth formula                                            *)
divisor(structure_type) ==
    IF structure_type = "pit"
    THEN RMul(RMul(RMul(Lit(4, 10), Lit(15, 10)), Lit(15, 10)), R(1000))
    ELSE IF structure_type = "trench"
    THEN RMul(RMul(RMul(Lit(35, 100), Lit(60, 10)), Lit(6, 10)), R(1000))
    ELSE IF structure_type = "shaft"
    THEN LET half == RDiv(Lit(9, 10), R(2))
         IN RMul(RMul(RMul(Lit(3, 10), Lit(31416, 10000)), RMul(half, half)), R(1000))
    ELSE LET half == RDiv(Lit(10, 10), R(2))
         IN RMul(RMul(Lit(31416, 10000), RMul(half, half)), R(1000))

min_depth(structure_type) ==
    IF structure_type \in {"pit", "trench"} THEN Lit(12, 10)
    ELSE IF structure_type = "shaft" THEN Lit(60, 10)
    ELSE Lit(80, 10)

(* variant: min() where the source has max() *)
depth_m_min(structure_type, target_storage_liters) ==
    RMin(min_depth(structure_type), RDiv(target_storage_liters, divisor(structure_type)))

(* variant: no minimum-depth floor *)
depth_m_nofloor(structure_type, target_storage_liters) ==
    RDiv(target_storage_liters, divisor(structure_type))

(* variant: the magnitude of the target *)
depth_m_abs(structure_type, target_storage_liters) ==
    RMax(min_depth(structure_type), RDiv(RAbs(target_storage_liters), divisor(structure_type)))

(* the local depth_m of suggest_dimensions, before it is rounded *)
depth_m(structure_type, target_storage_liters) ==
    RMax(min_depth(structure_type), RDiv(target_storage_liters, divisor(structure_type)))

(* the local volume_l of suggest_dimensions for a depth d *)
volume_l(structure_type, d) ==
    IF structure_type = "pit"
    THEN RMul(RMul(RMul(RMul(Lit(4, 10), Lit(15, 10)), Lit(15, 10)), d), R(1000))
    ELSE IF structure_type = "trench"
    THEN RMul(RMul(RMul(RMul(Lit(35, 100), Lit(60, 10)), Lit(6, 10)), d), R(1000))
    ELSE IF structure_type = "shaft"
    THEN LET half == RDiv(Lit(9, 10), R(2))
         IN RMul(RMul(RMul(RMul(Lit(3, 10), Lit(31416, 10000)), RMul(half, half)), d), R(1000))
    ELSE LET half == RDiv(Lit(10, 10), R(2))
         IN RMul(RMul(RMul(Lit(31416, 10000), RMul(half, half)), d), R(1000))

(* variant: every depth rounded to 2 decimals *)
suggest_dimensions_round2(structure_type, target_storage_liters) ==
    LET d == depth_m(structure_type, target_storage_liters)
    IN IF structure_type = "pit"
       THEN <<[length_m |-> Lit(15, 10), breadth_m |-> Lit(15, 10), depth_m |-> round(d, 2)],
              volume_l(structure_type, d),
              "40% void ratio assumed for pebble media">>
       ELSE IF structure_type = "trench"
       THEN <<[length_m |-> Lit(60, 10), breadth_m |-> Lit(6, 10), depth_m |-> round(d, 2)],
              volume_l(structure_type, d),
              "35% void ratio assumed for brickbats">>
       ELSE IF structure_type = "shaft"
       THEN <<[diameter_m |-> Lit(9, 10), depth_m |-> round(d, 2)],
              volume_l(structure_type, d),
              "30% effective storage with gravel pack">>
       ELSE <<[diameter_m |-> Lit(10, 10), depth_m |-> round(d, 2)],
              volume_l(structure_type, d),
              "Assuming full well volume as storage">>

(* returns <<dimensions, effective_storage_liters, notes>> *)
suggest_dimensions(structure_type, target_storage_liters) ==
    LET d == depth_m(structure_type, target_storage_liters)
    IN IF structure_type = "pit"
       THEN <<[length_m |-> Lit(15, 10), breadth_m |-> Lit(15, 10), depth_m |-> round(d, 2)],
              volume_l(structure_type, d),
              "40% void ratio assumed for pebble media">>
       ELSE IF structure_type = "trench"
       THEN <<[length_m |-> Lit(60, 10), breadth_m |-> Lit(6, 10), depth_m |-> round(d, 2)],
              volume_l(structure_type, d),
              "35% void ratio assumed for brickbats">>
       ELSE IF structure_type = "shaft"
       THEN <<[diameter_m |-> Lit(9, 10), depth_m |-> round(d, 1)],
              volume_l(structure_type, d),
              "30% effective storage with gravel pack">>
       ELSE <<[diameter_m |-> Lit(10, 10), depth_m |-> round(d, 1)],
              volume_l(structure_type, d),
              "Assuming full well volume as storage">>

base_cost(structure_type) ==
    CASE structure_type = "pit" -> R(20000)
      [] structure_type = "trench" -> R(35000)
      [] structure_type = "shaft" -> R(60000)
      [] structure_type = "recharge_well" -> R(120000)
      [] OTHER -> R(30000)

per_liter_cost(structure_type) ==
    CASE structure_type = "pit" -> Lit(30, 10)
      [] structure_type = "trench" -> Lit(25, 10)
      [] structure_type = "shaft" -> Lit(40, 10)
      [] structure_type = "recharge_well" -> Lit(45, 10)
      [] OTHER -> Lit(30, 10)

(* variant: the rate applied per liter, not per 1000 liters *)
estimate_costs_per_liter(structure_type, effective_storage_liters) ==
    LET capex == RAdd(base_cost(structure_type),
                      RMul(per_liter_cost(structure_type),
                           effective_storage_liters))
        opex == RMul(Lit(2, 100), capex)
    IN <<capex, opex>>

(* returns <<capex, opex>> *)
estimate_costs(structure_type, effective_storage_liters) ==
    LET capex == RAdd(base_cost(structure_type),
                      RMul(per_liter_cost(structure_type),
                           RDiv(effective_storage_liters, R(1000))))
        opex == RMul(Lit(2, 100), capex)
    IN <<capex, opex>>

estimate_benefit(runoff_liters) == runoff_liters

----------------------------------------------------------------------------
(* Inputs of the calculator calls *)

MaxTargetIdx == 24
MaxRoofIdx == 6
MaxOpenIdx == 3
MaxGwIdx == 3
MaxRainIdx == 3
MaxStorageIdx == 12
FloatBits == 12

StructureTypes == {"pit", "trench", "shaft", "recharge_well"}

TypeInputs == StructureTypes \cup {"tank"}

(* -1589 L, -1191.75 L, ..., 0 L, 397.25 L, ... *)
Targets == {Fl(Norm(i * 1589, 4)) : i \in -4 .. MaxTargetIdx}

Grid(step, maxIdx) == {RSubX(R(step * i), Norm(j, 2)) : i \in 0 .. maxIdx, j \in 0 .. 1}

RoofAreas == Grid(60, MaxRoofIdx) \cup {R(100), R(200), R(350)}

OpenSpaces == Grid(10, MaxOpenIdx) \cup {R(5), R(25)}

GwDepths == Grid(5, MaxGwIdx) \cup {R(3), R(8), R(12)}

Rainfalls == {R(-10), Norm(2469, 2)} \cup {R(400 * i) : i \in 0 .. MaxRainIdx}

Areas == {R(0), R(100), Norm(333, 10)}

Coefficients == {R(0), R(1), Norm(85, 100), Norm(7, 10)}

Storages == {R(251 * i) : i \in 0 .. MaxStorageIdx}

----------------------------------------------------------------------------
(* Calls of the calculators.  A run makes one call, or two calls of        *)
(* suggest_dimensions for the same structure type; call is the last call   *)
(* with its result and prev the one before it.                             *)

(* The state of the middleware, of the chat stream and of the gamification *)
(* stores when the application has been constructed and has served nothing *)
NoEvent ==
    [kind |-> "none", status |-> 0, headers |-> <<>>, exempt |-> FALSE, young |-> 0,
     expired |-> FALSE, recorded |-> 0]

HttpIdle ==
    /\ now = 0
    /\ request_counts = <<>>
    /\ inflight = EmptyBag
    /\ event = NoEvent
    /\ passed = <<>>

NoStream == [pc |-> "idle", provider |-> <<>>, pos |-> 0, events |-> <<>>]

ChatIdle == chat = NoStream

NoOutput == [op |-> "none", status |-> 0, body |-> <<>>]

BoardIdle ==
    /\ user_points = <<>>
    /\ user_badges = <<>>
    /\ leaderboard = <<>>
    /\ awards = <<>>
    /\ board = NoOutput

WebIdle == HttpIdle /\ ChatIdle /\ BoardIdle

NoCall == [fn |-> "none", st |-> "", x |-> R(0), y |-> R(0), z |-> R(0), out |-> <<>>]

InitCalc ==
    /\ prec = 0
    /\ WebIdle
    /\ call = NoCall
    /\ prev = NoCall
    /\ users = {}
    /\ assessments = <<>>
    /\ req = <<>>
    /\ subs = <<>>
    /\ reads = <<>>

CallRunoff ==
    /\ call = NoCall
    /\ \E mm \in Rainfalls, area \in Areas, coef \in Coefficients :
        /\ call' = [fn |-> "estimate_runoff_liters", st |-> "", x |-> mm, y |-> area, z |-> coef,
                    out |-> estimate_runoff_liters(mm, area, coef)]
        /\ prev' = NoCall
        /\ UNCHANGED <<prec, apiVars, webVars>>

CallRecommend ==
    /\ call = NoCall
    /\ \E roof \in RoofAreas, open \in OpenSpaces, gw \in GwDepths :
        /\ call' = [fn |-> "recommend_structure_type", st |-> "", x |-> roof, y |-> open, z |-> gw,
                    out |-> recommend_structure_type(roof, open, gw)]
        /\ prev' = NoCall
        /\ UNCHANGED <<prec, apiVars, webVars>>

CallSuggest ==
    /\ prev = NoCall
    /\ \E st \in TypeInputs, target \in Targets :
        /\ call = NoCall \/ (call.fn = "suggest_dimensions" /\ call.st = st)
        /\ call' = [fn |-> "suggest_dimensions", st |-> st, x |-> target, y |-> R(0), z |-> R(0),
                    out |-> suggest_dimensions(st, target)]
        /\ prev' = call
        /\ UNCHANGED <<prec, apiVars, webVars>>

CallCosts ==
    /\ call = NoCall
    /\ \E st \in TypeInputs, storage \in Storages :
        /\ call' = [fn |-> "estimate_costs", st |-> st, x |-> storage, y |-> R(0), z |-> R(0),
                    out |-> estimate_costs(st, storage)]
        /\ prev' = NoCall
        /\ UNCHANGED <<prec, apiVars, webVars>>

NextCalc == CallRunoff \/ CallRecommend \/ CallSuggest \/ CallCosts

SpecCalc == InitCalc /\ [][NextCalc]_vars

(* the same calls of suggest_dimensions in float arithmetic *)
InitFloat ==
    /\ prec = FloatBits
    /\ WebIdle
    /\ call = NoCall
    /\ prev = NoCall
    /\ users = {}
    /\ assessments = <<>>
    /\ req = <<>>
    /\ subs = <<>>
    /\ reads = <<>>

NextFloat == CallSuggest

SpecFloat == InitFloat /\ [][NextFloat]_vars

(* the same calls in either arithmetic *)
InitAny ==
    /\ prec \in {0, FloatBits}
    /\ WebIdle
    /\ call = NoCall
    /\ prev = NoCall
    /\ users = {}
    /\ assessments = <<>>
    /\ req = <<>>
    /\ subs = <<>>
    /\ reads = <<>>

NextAny == CallSuggest

SpecAny == InitAny /\ [][NextAny]_vars

----------------------------------------------------------------------------
(* the rules of the structure-type selector as the specification lists them *)
Rule1(roof, open, gw) == gw[1] < 5 * gw[2] /\ open[1] >= 20 * open[2]

Rule2(roof, open, gw) == roof[1] < 120 * roof[2]

Rule3(roof, open, gw) == roof[1] >= 300 * roof[2] /\ gw[1] >= 10 * gw[2]

----------------------------------------------------------------------------
(* The per-type constants of the dimension solver as the specification     *)
(* tabulates them, in exact arithmetic.                                    *)

ClaimPlanArea(st) ==
    CASE st = "pit" -> RMulX(Norm(15, 10), Norm(15, 10))
      [] st = "trench" -> RMulX(R(6), Norm(6, 10))
      [] st = "shaft" -> RMulX(Norm(31416, 10000), RMulX(Norm(45, 100), Norm(45, 100)))
      [] st = "recharge_well" -> RMulX(Norm(31416, 10000), RMulX(Norm(5, 10), Norm(5, 10)))

ClaimRatio(st) ==
    CASE st = "pit" -> Norm(40, 100)
      [] st = "trench" -> Norm(35, 100)
      [] st = "shaft" -> Norm(30, 100)
      [] st = "recharge_well" -> R(1)

ClaimMinDepth(st) ==
    CASE st = "pit" -> Norm(12, 10)
      [] st = "trench" -> Norm(12, 10)
      [] st = "shaft" -> R(6)
      [] st = "recharge_well" -> R(8)

ClaimDecimals(st) == IF st \in {"pit", "trench"} THEN 2 ELSE 1

(* liters of effective storage per metre of depth *)
ClaimLitersPerMetre(st) == RMulX(RMulX(ClaimRatio(st), ClaimPlanArea(st)), R(1000))

ClaimFloorStorage(st) == RMulX(ClaimLitersPerMetre(st), ClaimMinDepth(st))

ClaimDepth(st, target) ==
    LET free == RDivX(target, ClaimLitersPerMetre(st))
    IN IF RLe(free, ClaimMinDepth(st)) THEN ClaimMinDepth(st) ELSE free

IsSuggest(c) == c.fn = "suggest_dimensions" /\ c.st \in StructureTypes

(* x is a multiple of 10^-k and no further than half of 10^-k from y *)
IsRoundingOf(x, y, k) ==
    /\ Pow(10, k) % x[2] = 0
    /\ RLe(RMulX(RAbs(RSubX(x, y)), R(2 * Pow(10, k))), R(1))

(* C3: the depth solved by suggest_dimensions is                           *)
(* max(min_depth, target / (ratio * planform_area * 1000)) with the        *)
(* constants of each type, and the reported depth_m is that depth rounded  *)
(* to 2 decimals for pit and trench, to 1 decimal for shaft and            *)
(* recharge_well.                                                          *)
C3_DepthFormula ==
    IsSuggest(call) =>
        /\ depth_m(call.st, call.x) = ClaimDepth(call.st, call.x)
        /\ IsRoundingOf(call.out[1].depth_m, ClaimDepth(call.st, call.x), ClaimDecimals(call.st))

(* a depth above the floor that rounding changes *)
C3_Witness ==
    /\ IsSuggest(call)
    /\ call.st = "shaft"
    /\ RLt(ClaimMinDepth(call.st), depth_m(call.st, call.x))
    /\ call.out[1].depth_m # depth_m(call.st, call.x)

(* C4: the effective storage returned by suggest_dimensions is computed    *)
(* from the rounded depth it reports:                                      *)
(* storage = ratio * planform_area * dimensions.depth_m * 1000.            *)
C4_StorageFromRoundedDepth ==
    IsSuggest(call) =>
        call.out[2] = RMulX(ClaimLitersPerMetre(call.st), call.out[1].depth_m)

(* the solved depth of the call is the minimum depth *)
FloorBinds(c) == RLe(depth_m(c.st, c.x), min_depth(c.st))

(* C5 as stated: for a target >= 0 the effective storage returned by       *)
(* suggest_dimensions is >= the target, and > the target only when the     *)
(* minimum-depth floor binds.                                              *)
C5_MeetsTarget ==
    IsSuggest(call) /\ RLe(R(0), call.x) =>
        /\ RLe(call.x, call.out[2])
        /\ RLt(call.x, call.out[2]) => FloorBinds(call)

(* C5 (amended): for a target >= 0 the effective storage returned by       *)
(* suggest_dimensions equals max(target, ratio * planform_area * min_depth *)
(* * 1000) up to the rounding error of the float operations, a relative    *)
(* error of at most 8 * 2^-p for a p-bit significand.                      *)
C5_MeetsTargetUpToRounding ==
    IsSuggest(call) /\ RLe(R(0), call.x) =>
        LET m == RMax(call.x, ClaimFloorStorage(call.st))
        IN RLe(RMulX(RAbs(RSubX(call.out[2], m)), R(Pow(2, prec - 3))), m)

(* the floor does not bind and the storage is below the target *)
C5_Witness ==
    /\ IsSuggest(call)
    /\ prec > 0
    /\ ~FloorBinds(call)
    /\ RLt(call.out[2], call.x)

(* C6: for a target <= 0 the solved depth is exactly the type's minimum    *)
(* depth (1.2 pit and trench, 6.0 shaft, 8.0 recharge_well).               *)
C6_FloorAtNonPositiveTarget ==
    IsSuggest(call) /\ RLe(call.x, R(0)) =>
        /\ depth_m(call.st, call.x) = ClaimMinDepth(call.st)
        /\ call.out[1].depth_m = ClaimMinDepth(call.st)

C6_Witness ==
    /\ IsSuggest(call)
    /\ RLt(call.x, R(0))
    /\ call.out[1].depth_m = ClaimMinDepth(call.st)

C8_Monotone ==
    IsSuggest(call) /\ IsSuggest(prev) /\ prev.st = call.st /\ RLe(prev.x, call.x) =>
        /\ RLe(depth_m(prev.st, prev.x), depth_m(call.st, call.x))
        /\ RLe(prev.out[1].depth_m, call.out[1].depth_m)
        /\ RLe(prev.out[2], call.out[2])

(* a negative target, then a larger one that the floor does not bind, in   *)
(* float arithmetic                                                        *)
C8_Witness ==
    /\ IsSuggest(call) /\ IsSuggest(prev) /\ prev.st = call.st
    /\ prec > 0
    /\ RLt(prev.x, R(0))
    /\ RLt(prev.x, call.x)
    /\ RLt(prev.out[1].depth_m, call.out[1].depth_m)
    /\ RLt(prev.out[2], call.out[2])

(* C9: estimate_runoff_liters returns exactly                              *)
(* annual_rainfall_mm * roof_area_m2 * runoff_coefficient, neither rounded *)
(* nor clamped; with coefficient 1 it is rainfall * area.                  *)
C9_RunoffExact ==
    call.fn = "estimate_runoff_liters" =>
        /\ call.out = Norm(call.x[1] * call.y[1] * call.z[1], call.x[2] * call.y[2] * call.z[2])
        /\ call.z = R(1) => call.out = Norm(call.x[1] * call.y[1], call.x[2] * call.y[2])

(* a product with more than two decimals, and a negative one *)
C9_Witness ==
    /\ call.fn = "estimate_runoff_liters"
    /\ call.z = R(1)
    /\ call.x = Norm(2469, 2)
    /\ call.y = Norm(333, 10)
    /\ call.out = Norm(822177, 20)

(* the cost table of the specification; the rate is in tenths per 1000 liters *)
ClaimBase(st) ==
    CASE st = "pit" -> 20000
      [] st = "trench" -> 35000
      [] st = "shaft" -> 60000
      [] st = "recharge_well" -> 120000
      [] OTHER -> 30000

ClaimRateTenths(st) ==
    CASE st = "pit" -> 30
      [] st = "trench" -> 25
      [] st = "shaft" -> 40
      [] st = "recharge_well" -> 45
      [] OTHER -> 30

(* C10: estimate_costs returns capex = base + rate * storage / 1000 with   *)
(* (base, rate) = (20000, 3.0) pit, (35000, 2.5) trench, (60000, 4.0)      *)
(* shaft, (120000, 4.5) recharge_well, (30000, 3.0) for any other type,    *)
(* and opex = 0.02 * capex.                                                *)
C10_CostFormula ==
    call.fn = "estimate_costs" =>
        LET capex == call.out[1]
            opex == call.out[2]
        IN /\ capex = RAddX(R(ClaimBase(call.st)),
                            Norm(ClaimRateTenths(call.st) * call.x[1], 10000 * call.x[2]))
           /\ RMulX(opex, R(50)) = capex

C10_Witness ==
    /\ call.fn = "estimate_costs"
    /\ call.st = "tank"
    /\ call.x = R(251)
    /\ call.out[1] = Norm(30000753, 1000)

----------------------------------------------------------------------------
(* backend/app/services/gis_clients.py *)

(* fetch_rainfall_annual_mm for an outcome of the HTTP request: ok is      *)
(* FALSE when the request, its status check or the JSON parsing raises,    *)
(* series is precipitation_sum with [num, v] for each entry.               *)
(* sum(v for v in series if isinstance(v, (int, float))): from the left *)
RECURSIVE SumNumeric(_)
SumNumeric(series) ==
    IF series = <<>> THEN R(0)
    ELSE LET front == SumNumeric(SubSeq(series, 1, Len(series) - 1))
             last == series[Len(series)]
         IN IF last.num THEN RAdd(front, last.v) ELSE front

(* variant: the sum returned whatever its sign *)
fetch_rainfall_annual_mm_unchecked(outcome) ==
    IF ~outcome.ok THEN R(800) ELSE SumNumeric(outcome.series)

fetch_rainfall_annual_mm(outcome) ==
    IF ~outcome.ok THEN R(800)
    ELSE LET annual == SumNumeric(outcome.series)
         IN IF RLt(R(0), annual) THEN annual ELSE R(800)

(* fetch_groundwater_context for the outcomes of its two queries: ok is    *)
(* FALSE when the query raises; q1 has found and row, q2 has num (the      *)
(* scalar is an int or a float) and v.                                     *)
(* variant: the depth is used only when the aquifer query did not raise *)
fetch_groundwater_context_coupled(q1, q2) ==
    LET has_aquifer == q1.ok /\ q1.found
        has_depth == q1.ok /\ q2.ok /\ q2.num
    IN [gw_depth_m |-> IF has_depth THEN q2.v ELSE Lit(80, 10),
        aquifer_type |-> IF has_aquifer THEN q1.row.aquifer_type ELSE "Alluvial/Unconfined",
        transmissivity_m2_per_day |->
            IF has_aquifer THEN q1.row.transmissivity_m2_per_day ELSE R(500),
        storativity |-> IF has_aquifer THEN q1.row.storativity ELSE Lit(12, 100)]

fetch_groundwater_context(q1, q2) ==
    LET has_aquifer == q1.ok /\ q1.found
        has_depth == q2.ok /\ q2.num
    IN [gw_depth_m |-> IF has_depth THEN q2.v ELSE Lit(80, 10),
        aquifer_type |-> IF has_aquifer THEN q1.row.aquifer_type ELSE "Alluvial/Unconfined",
        transmissivity_m2_per_day |->
            IF has_aquifer THEN q1.row.transmissivity_m2_per_day ELSE R(500),
        storativity |-> IF has_aquifer THEN q1.row.storativity ELSE Lit(12, 100)]

----------------------------------------------------------------------------
(* Calls of the two fetches with the answers of the rainfall API and of    *)
(* the two groundwater queries.                                            *)

MaxSeriesLen == 3

(* entries of precipitation_sum: numbers and a non-numeric entry (null) *)
SeriesEntries ==
    {[num |-> TRUE, v |-> R(-300)], [num |-> TRUE, v |-> R(0)],
     [num |-> TRUE, v |-> Norm(2505, 10)], [num |-> FALSE, v |-> R(0)]}

RainResponses ==
    {[ok |-> FALSE, series |-> <<>>]}
    \cup {[ok |-> TRUE, series |-> s] :
            s \in UNION {[1 .. k -> SeriesEntries] : k \in 0 .. MaxSeriesLen}}

AquiferLookups ==
    {[ok |-> FALSE, found |-> FALSE,
      row |-> [aquifer_type |-> "", transmissivity_m2_per_day |-> R(0), storativity |-> R(0)]],
     [ok |-> TRUE, found |-> FALSE,
      row |-> [aquifer_type |-> "", transmissivity_m2_per_day |-> R(0), storativity |-> R(0)]],
     [ok |-> TRUE, found |-> TRUE,
      row |-> [aquifer_type |-> "Hard rock", transmissivity_m2_per_day |-> R(120),
               storativity |-> Norm(3, 100)]],
     [ok |-> TRUE, found |-> TRUE,
      row |-> [aquifer_type |-> "Alluvial/Unconfined", transmissivity_m2_per_day |-> R(500),
               storativity |-> Norm(12, 100)]]}

(* the scalar of the depth query: the query raises, no row or a value that *)
(* is not a number, or a number                                            *)
DepthLookups ==
    {[ok |-> FALSE, num |-> FALSE, v |-> R(0)],
     [ok |-> TRUE, num |-> FALSE, v |-> R(0)],
     [ok |-> TRUE, num |-> TRUE, v |-> R(0)],
     [ok |-> TRUE, num |-> TRUE, v |-> R(3)],
     [ok |-> TRUE, num |-> TRUE, v |-> Norm(25, 2)],
     [ok |-> TRUE, num |-> TRUE, v |-> R(-2)]}

CallRainfall ==
    /\ call.fn = NoCall.fn
    /\ \E outcome \in RainResponses :
        /\ call' = [fn |-> "fetch_rainfall_annual_mm", st |-> "", x |-> outcome, y |-> R(0),
                    z |-> R(0), out |-> fetch_rainfall_annual_mm(outcome)]
        /\ prev' = NoCall
        /\ UNCHANGED <<prec, apiVars, webVars>>

CallGroundwater ==
    /\ call.fn = NoCall.fn
    /\ \E q1 \in AquiferLookups, q2 \in DepthLookups :
        /\ call' = [fn |-> "fetch_groundwater_context", st |-> "", x |-> q1, y |-> q2,
                    z |-> R(0), out |-> fetch_groundwater_context(q1, q2)]
        /\ prev' = NoCall
        /\ UNCHANGED <<prec, apiVars, webVars>>

NextFetch == CallRainfall \/ CallGroundwater

SpecFetch == InitCalc /\ [][NextFetch]_vars

RECURSIVE ClaimSum(_)
ClaimSum(series) ==
    IF series = <<>> THEN R(0)
    ELSE IF Head(series).num THEN RAddX(Head(series).v, ClaimSum(Tail(series)))
    ELSE ClaimSum(Tail(series))

(* C22: fetch_rainfall_annual_mm returns a value > 0 for every answer: the *)
(* sum of the numeric monthly values when the request succeeds and the sum *)
(* is positive, 800.0 on a failure or when the sum is not positive.        *)
C22_RainfallFallback ==
    call.fn = "fetch_rainfall_annual_mm" =>
        LET positive == call.x.ok /\ RLt(R(0), ClaimSum(call.x.series))
        IN /\ RLt(R(0), call.out)
           /\ positive => call.out = ClaimSum(call.x.series)
           /\ ~positive => call.out = R(800)

(* a series with numeric and non-numeric entries whose sum is negative *)
C22_Witness ==
    /\ call.fn = "fetch_rainfall_annual_mm"
    /\ call.x.ok
    /\ \E i \in DOMAIN call.x.series : ~call.x.series[i].num
    /\ RLt(ClaimSum(call.x.series), R(0))
    /\ call.out = R(800)

----------------------------------------------------------------------------
(* backend/app/routers/assessments.py *)

MaxReqs == 2

ReqIds == 1 .. MaxReqs

None == "None"

TestUser == "testuser@example.com"

Principals == {TestUser, "alice@example.com"}

(* request bodies as they are submitted, before validation.  A zero roof   *)
(* is submitted for a pit, a trench or no preference.                      *)
Bodies ==
    {b \in [rooftop_area_m2 : {R(-1), R(0), R(100), R(350)},
            open_space_area_m2 : {R(-1), R(10), R(25)},
            num_dwellers : {-1, 4},
            preferred_structure : TypeInputs \cup {None}] :
        b.rooftop_area_m2 = R(0) => b.preferred_structure \notin {"shaft", "recharge_well"}}

(* the validation of AssessmentInput: Field(ge=0) on the two areas, int    *)
(* for num_dwellers, Optional[Literal[...]] for preferred_structure        *)
AssessmentInput(body) ==
    /\ RLe(R(0), body.rooftop_area_m2)
    /\ RLe(R(0), body.open_space_area_m2)
    /\ body.num_dwellers \in Int
    /\ body.preferred_structure \in StructureTypes \cup {None}

Payloads == {b \in Bodies : AssessmentInput(b)}

RainOutcomes ==
    {[ok |-> FALSE, series |-> <<>>],
     [ok |-> TRUE, series |-> <<[num |-> TRUE, v |-> R(700)], [num |-> FALSE, v |-> R(0)],
                                [num |-> TRUE, v |-> R(500)]>>]}

NoRow == [aquifer_type |-> "", transmissivity_m2_per_day |-> R(0), storativity |-> R(0)]

AquiferOutcomes ==
    {[ok |-> FALSE, found |-> FALSE, row |-> NoRow],
     [ok |-> TRUE, found |-> FALSE, row |-> NoRow]}

DepthOutcomes ==
    {[ok |-> FALSE, num |-> FALSE, v |-> R(0)],
     [ok |-> TRUE, num |-> TRUE, v |-> R(3)],
     [ok |-> TRUE, num |-> TRUE, v |-> R(12)]}

(* a submission: the body, the caller get_current_user_email reports, and  *)
(* what the rainfall API and the two groundwater queries answer for it     *)
Submissions ==
    [body : Bodies, user_email : Principals, rain : RainOutcomes,
     q1 : AquiferOutcomes, q2 : DepthOutcomes]

NoSubmission == [user_email |-> ""]

(* the submissions of the runs with several requests *)
FewSubmissions ==
    {[body |-> [rooftop_area_m2 |-> R(100), open_space_area_m2 |-> R(25),
                num_dwellers |-> 4, preferred_structure |-> None],
      user_email |-> TestUser,
      rain |-> [ok |-> FALSE, series |-> <<>>],
      q1 |-> [ok |-> FALSE, found |-> FALSE, row |-> NoRow],
      q2 |-> [ok |-> FALSE, num |-> FALSE, v |-> R(0)]],
     [body |-> [rooftop_area_m2 |-> R(100), open_space_area_m2 |-> R(25),
                num_dwellers |-> 4, preferred_structure |-> None],
      user_email |-> "alice@example.com",
      rain |-> [ok |-> FALSE, series |-> <<>>],
      q1 |-> [ok |-> FALSE, found |-> FALSE, row |-> NoRow],
      q2 |-> [ok |-> FALSE, num |-> FALSE, v |-> R(0)]],
     [body |-> [rooftop_area_m2 |-> R(350), open_space_area_m2 |-> R(25),
                num_dwellers |-> 4, preferred_structure |-> "pit"],
      user_email |-> "alice@example.com",
      rain |-> [ok |-> TRUE, series |-> <<[num |-> TRUE, v |-> R(700)],
                                         [num |-> FALSE, v |-> R(0)],
                                         [num |-> TRUE, v |-> R(500)]>>],
      q1 |-> [ok |-> TRUE, found |-> FALSE, row |-> NoRow],
      q2 |-> [ok |-> TRUE, num |-> TRUE, v |-> R(12)]],
     [body |-> [rooftop_area_m2 |-> R(100), open_space_area_m2 |-> R(25),
                num_dwellers |-> 4, preferred_structure |-> "tank"],
      user_email |-> TestUser,
      rain |-> [ok |-> FALSE, series |-> <<>>],
      q1 |-> [ok |-> FALSE, found |-> FALSE, row |-> NoRow],
      q2 |-> [ok |-> FALSE, num |-> FALSE, v |-> R(0)]]}

(* the id of the user with this email, 0 for no user *)
user_id_of(table, email) ==
    IF \E u \in table : u.email = email
    THEN (CHOOSE u \in table : u.email = email).id
    ELSE 0

(* variant: the selector's choice taken whenever there is one *)
struct_type_selector_first(payload, aquifer) ==
    recommend_structure_type(payload.rooftop_area_m2, payload.open_space_area_m2,
                             aquifer.gw_depth_m)

(* payload.preferred_structure or recommend_structure_type(...) *)
struct_type(payload, aquifer) ==
    IF payload.preferred_structure # None THEN payload.preferred_structure
    ELSE recommend_structure_type(payload.rooftop_area_m2, payload.open_space_area_m2,
                                  aquifer.gw_depth_m)

(* variant: a coefficient that drifts with the number of stored assessments *)
runoff_coeff_drifting == Lit(85 - Len(assessments), 100)

runoff_coeff == Lit(85, 100)

(* variant: the benefit taken in litres *)
payback_divisor_liters(benefit_lpy) == RMax(Lit(10, 10), benefit_lpy)

(* variant: without the floor of 1.0 *)
payback_divisor_nofloor(benefit_lpy) == RDiv(benefit_lpy, R(1000))

(* max(1.0, (benefit_lpy / 1000)) *)
payback_divisor(benefit_lpy) == RMax(Lit(10, 10), RDiv(benefit_lpy, R(1000)))

(* variant: the twelve fillings alone *)
recharge_potential_liters_capacity(runoff_liters, effective_storage) ==
    RMul(effective_storage, R(12))

(* variant: the runoff left after twelve fillings *)
recharge_potential_liters_shortfall(runoff_liters, effective_storage) ==
    RSubX(runoff_liters, RMul(effective_storage, R(12)))

(* min(runoff_liters, effective_storage * 12) *)
recharge_potential_liters(runoff_liters, effective_storage) ==
    RMin(runoff_liters, RMul(effective_storage, R(12)))

(* a float division of the pipeline has a zero divisor: the divisions of   *)
(* suggest_dimensions by the constant of the branch and the division of    *)
(* payback_years; the other divisions are by the literal 1000              *)
ZeroDivisionError(payload, annual_mm, aquifer) ==
    \/ divisor(struct_type(payload, aquifer))[1] = 0
    \/ payback_divisor(estimate_benefit(estimate_runoff_liters(
           annual_mm, payload.rooftop_area_m2, runoff_coeff)))[1] = 0

(* the AssessmentResult built from the locals of create_assessment *)
AssessmentResult(annual_mm, coeff, runoff_liters, st, sd, costs, benefit_lpy, aquifer) ==
    [runoff |-> [annual_rainfall_mm |-> annual_mm,
                 runoff_coefficient |-> coeff,
                 annual_runoff_volume_liters |-> runoff_liters],
     structure |-> [structure_type |-> st,
                    dimensions |-> sd[1],
                    storage_volume_liters |-> sd[2],
                    notes |-> sd[3]],
     cost |-> [capex_currency |-> costs[1],
               opex_currency_per_year |-> costs[2],
               water_savings_liters_per_year |-> benefit_lpy,
               payback_years |-> RDiv(costs[1], payback_divisor(benefit_lpy))],
     aquifer |-> aquifer,
     recharge_potential_liters |-> recharge_potential_liters(runoff_liters, sd[2])]

(* the results create_assessment computes from the payload and the fetched *)
(* context.  Each local is bound to its value once, in the order of the    *)
(* statements: runoff_coeff and runoff, struct_type, the dimensions, the   *)
(* costs and the benefit.                                                  *)
assessment_results(payload, annual_mm, aquifer) ==
    CHOOSE results \in UNION UNION UNION {{{{
        AssessmentResult(annual_mm, coeff, runoff_liters, st, sd, costs,
                         benefit_lpy, aquifer) :
            costs \in {estimate_costs(st, sd[2])},
            benefit_lpy \in {estimate_benefit(runoff_liters)}} :
            sd \in {suggest_dimensions(st, RMul(runoff_liters, Lit(25, 100)))}} :
            runoff_liters \in {estimate_runoff_liters(annual_mm, payload.rooftop_area_m2,
                                                      coeff)},
            st \in {struct_type(payload, aquifer)}} :
            coeff \in {runoff_coeff}} : TRUE

(* results.model_dump(): the nested models as dicts, field by field *)
model_dump(results) ==
    [runoff |-> [f \in {"annual_rainfall_mm", "runoff_coefficient",
                        "annual_runoff_volume_liters"} |-> results.runoff[f]],
     structure |-> [f \in {"structure_type", "dimensions", "storage_volume_liters", "notes"}
                        |-> results.structure[f]],
     cost |-> [f \in {"capex_currency", "opex_currency_per_year",
                      "water_savings_liters_per_year", "payback_years"} |-> results.cost[f]],
     aquifer |-> results.aquifer,
     recharge_potential_liters |-> results.recharge_potential_liters]

(* the Assessment row of create_assessment *)
Assessment(id, user_id, payload, results) ==
    [id |-> id, user_id |-> user_id,
     num_dwellers |-> payload.num_dwellers,
     rooftop_area_m2 |-> payload.rooftop_area_m2,
     open_space_area_m2 |-> payload.open_space_area_m2,
     results |-> model_dump(results)]

(* variant: the row is kept although the commit raised *)
db_add_commit_kept(table, row, committed) == Append(table, row)

(* db.add(row); db.commit(): the table afterwards; the commit can raise *)
db_add_commit(table, row, committed) == IF committed THEN Append(table, row) ELSE table

NoPayload == [rooftop_area_m2 |-> R(0), open_space_area_m2 |-> R(0), num_dwellers |-> 0,
              preferred_structure |-> None]

NoRead == [op |-> "none", user_email |-> "", assessment_id |-> 0, status |-> 0,
           body |-> <<>>]

Idle == [pc |-> "idle", payload |-> NoPayload, user_email |-> "", user_id |-> 0,
         annual_mm |-> R(0), aquifer |-> <<>>, response |-> <<>>, error |-> ""]

InitialUsers == {[id |-> 1, email |-> "alice@example.com"]}

(* one request, with any submission *)
InitApi ==
    /\ prec = 0
    /\ WebIdle
    /\ call = NoCall
    /\ prev = NoCall
    /\ users = InitialUsers
    /\ assessments = <<>>
    /\ req = [r \in ReqIds |-> Idle]
    /\ subs \in {[r \in ReqIds |-> IF r = 1 THEN s ELSE NoSubmission] : s \in Submissions}
    /\ reads = NoRead

(* a request arrives: requests are numbered in the order of arrival *)
Arrives(r) ==
    /\ req[r].pc = "idle"
    /\ subs[r] # NoSubmission
    /\ IF r = 1 THEN TRUE ELSE req[r - 1].pc # "idle"

(* the body fails the validation of AssessmentInput: the handler is not    *)
(* called and the response is 422                                          *)
Reject(r) ==
    /\ Arrives(r)
    /\ ~AssessmentInput(subs[r].body)
    /\ req' = [req EXCEPT ![r].pc = "rejected", ![r].error = "422"]
    /\ UNCHANGED <<calcVars, webVars, users, assessments, subs, reads>>

(* create_assessment up to its first suspension, inside the rainfall fetch: *)
(* the user lookup and the creation of the test user, whose commit can     *)
(* raise.                                                                  *)
CreateBegin(r) ==
    /\ Arrives(r)
    /\ AssessmentInput(subs[r].body)
    /\ \E committed \in BOOLEAN :
        LET payload == subs[r].body
            user_email == subs[r].user_email
            found == user_id_of(users, user_email)
            create == found = 0 /\ user_email = TestUser
            new_id == Cardinality(users) + 1
        IN /\ users' = IF create /\ committed
                       THEN users \cup {[id |-> new_id, email |-> TestUser]}
                       ELSE users
           /\ req' = [req EXCEPT ![r] =
                        IF create /\ ~committed
                        THEN [Idle EXCEPT !.pc = "failed", !.payload = payload,
                                          !.user_email = user_email, !.error = "commit"]
                        ELSE [Idle EXCEPT !.pc = "await_rainfall", !.payload = payload,
                                          !.user_email = user_email,
                                          !.user_id = IF create THEN new_id ELSE found]]
    /\ UNCHANGED <<calcVars, webVars, assessments, subs, reads>>

(* the request is cancelled while the handler is suspended in the rainfall *)
(* fetch (a CancelledError is not an Exception): the handler ends there    *)
CreateAbort(r) ==
    /\ req[r].pc = "await_rainfall"
    /\ req' = [req EXCEPT ![r].pc = "failed", ![r].error = "fetch"]
    /\ UNCHANGED <<calcVars, webVars, users, assessments, subs, reads>>

(* variant: the payload of the request that arrived last *)
local_payload_shared(r) ==
    req[CHOOSE k \in ReqIds : req[k].pc # "idle" /\
                              \A j \in ReqIds : req[j].pc # "idle" => j <= k].payload

(* the parameter payload of the call of create_assessment for request r *)
local_payload(r) == req[r].payload

(* create_assessment from the rainfall response to its return: the          *)
(* groundwater queries, the calculators, the insert, whose commit can      *)
(* raise, the refresh of the row, which can raise too, and the response    *)
CreateFinish(r) ==
    /\ req[r].pc = "await_rainfall"
    /\ \E payload \in {local_payload(r)},
          annual_mm \in {fetch_rainfall_annual_mm(subs[r].rain)},
          aquifer \in {fetch_groundwater_context(subs[r].q1, subs[r].q2)} :
       IF ZeroDivisionError(payload, annual_mm, aquifer)
       THEN /\ req' = [req EXCEPT ![r].pc = "failed", ![r].error = "ZeroDivisionError",
                                  ![r].annual_mm = annual_mm, ![r].aquifer = aquifer]
            /\ UNCHANGED assessments
       ELSE \E results \in {assessment_results(payload, annual_mm, aquifer)},
               committed \in BOOLEAN, refreshed \in BOOLEAN :
            LET id == Len(assessments) + 1
                returned == committed /\ refreshed
            IN /\ assessments' = db_add_commit(assessments,
                                    Assessment(id, req[r].user_id, payload, results),
                                    committed)
               /\ req' = [req EXCEPT ![r].annual_mm = annual_mm, ![r].aquifer = aquifer,
                             ![r].pc = IF returned THEN "done" ELSE "failed",
                             ![r].error = IF returned THEN ""
                                          ELSE IF committed THEN "refresh" ELSE "commit",
                             ![r].response = IF returned
                                             THEN [id |-> id, inputs |-> payload,
                                                   results |-> results]
                                             ELSE <<>>]
    /\ UNCHANGED <<calcVars, webVars, users, subs, reads>>

NextApi == \E r \in ReqIds : Reject(r) \/ CreateBegin(r) \/ CreateAbort(r) \/ CreateFinish(r)

SpecApi == InitApi /\ [][NextApi]_vars

(* the response model building AssessmentResult from the stored dict,      *)
(* field by field                                                          *)
model_validate(d) ==
    [runoff |-> [annual_rainfall_mm |-> d.runoff.annual_rainfall_mm,
                 runoff_coefficient |-> d.runoff.runoff_coefficient,
                 annual_runoff_volume_liters |-> d.runoff.annual_runoff_volume_liters],
     structure |-> [structure_type |-> d.structure.structure_type,
                    dimensions |-> d.structure.dimensions,
                    storage_volume_liters |-> d.structure.storage_volume_liters,
                    notes |-> d.structure.notes],
     cost |-> [capex_currency |-> d.cost.capex_currency,
               opex_currency_per_year |-> d.cost.opex_currency_per_year,
               water_savings_liters_per_year |-> d.cost.water_savings_liters_per_year,
               payback_years |-> d.cost.payback_years],
     aquifer |-> d.aquifer,
     recharge_potential_liters |-> d.recharge_potential_liters]

(* the AssessmentOut list_assessments and get_assessment build from a row: *)
(* the inputs from the columns of the row, preferred_structure absent      *)
AssessmentOut(a) ==
    [id |-> a.id,
     inputs |-> [num_dwellers |-> a.num_dwellers,
                 rooftop_area_m2 |-> a.rooftop_area_m2,
                 open_space_area_m2 |-> a.open_space_area_m2,
                 preferred_structure |-> None],
     results |-> model_validate(a.results)]

(* the rows of the caller, the latest first *)
list_assessments(user_email) ==
    LET uid == user_id_of(users, user_email)
        rows == SelectSeq(assessments, LAMBDA a : a.user_id = uid)
    IN [i \in 1 .. Len(rows) |-> AssessmentOut(rows[Len(rows) + 1 - i])]

(* variant: the results recomputed from the stored inputs and the default  *)
(* context                                                                 *)
get_assessment_recomputed(assessment_id, user_email) ==
    LET uid == user_id_of(users, user_email)
        found == assessment_id \in 1 .. Len(assessments)
        a == assessments[assessment_id]
    IN IF ~found \/ (uid # 0 /\ a.user_id # uid)
       THEN [status |-> 404, body |-> <<>>]
       ELSE [status |-> 200,
             body |-> [AssessmentOut(a) EXCEPT !.results =
                          assessment_results(AssessmentOut(a).inputs, R(800),
                                             a.results.aquifer)]]

(* the row with this id, 404 when there is none or it is another user's *)
get_assessment(assessment_id, user_email) ==
    LET uid == user_id_of(users, user_email)
        found == assessment_id \in 1 .. Len(assessments)
        a == assessments[assessment_id]
    IN IF ~found \/ (uid # 0 /\ a.user_id # uid)
       THEN [status |-> 404, body |-> <<>>]
       ELSE [status |-> 200, body |-> AssessmentOut(a)]

ListAssessments ==
    /\ \E user_email \in Principals :
        reads' = [op |-> "list", user_email |-> user_email, assessment_id |-> 0,
                  status |-> 200, body |-> list_assessments(user_email)]
    /\ UNCHANGED <<calcVars, webVars, users, assessments, req, subs>>

GetAssessment ==
    /\ \E assessment_id \in ReqIds, user_email \in Principals :
        LET out == get_assessment(assessment_id, user_email)
        IN reads' = [op |-> "get", user_email |-> user_email,
                     assessment_id |-> assessment_id,
                     status |-> out.status, body |-> out.body]
    /\ UNCHANGED <<calcVars, webVars, users, assessments, req, subs>>

(* several requests, which interleave at the rainfall fetch, and reads *)
InitStore ==
    /\ prec = 0
    /\ WebIdle
    /\ call = NoCall
    /\ prev = NoCall
    /\ users = InitialUsers
    /\ assessments = <<>>
    /\ req = [r \in ReqIds |-> Idle]
    /\ subs \in [ReqIds -> FewSubmissions]
    /\ reads = NoRead

NextStore == NextApi \/ ListAssessments \/ GetAssessment

SpecStore == InitStore /\ [][NextStore]_vars

----------------------------------------------------------------------------
Done(r) == req[r].pc = "done"

SelectorChoice(roof, open, gw) ==
    IF Rule1(roof, open, gw) THEN "trench"
    ELSE IF Rule2(roof, open, gw) THEN "pit"
    ELSE IF Rule3(roof, open, gw) THEN "recharge_well"
    ELSE "shaft"

DimensionNames(st) ==
    IF st \in {"pit", "trench"} THEN {"length_m", "breadth_m", "depth_m"}
    ELSE {"diameter_m", "depth_m"}

(* C2: when the payload of create_assessment supplies preferred_structure, *)
(* the structure type of the result is that type, and the dimensions, the  *)
(* storage and the cost are those of that type, whatever the selector      *)
(* would choose; the selector's choice is used only when                   *)
(* preferred_structure is unset.  The stored results are the same.         *)
C2_PreferredOverrides ==
    \A r \in ReqIds : Done(r) =>
        LET p == req[r].response.inputs
            res == req[r].response.results
            st == res.structure.structure_type
            target == RMulX(res.runoff.annual_runoff_volume_liters, Norm(25, 100))
            choice == SelectorChoice(p.rooftop_area_m2, p.open_space_area_m2,
                                     res.aquifer.gw_depth_m)
        IN /\ p.preferred_structure # None => st = p.preferred_structure
           /\ p.preferred_structure = None => st = choice
           /\ DOMAIN res.structure.dimensions = DimensionNames(st)
           /\ IsRoundingOf(res.structure.dimensions.depth_m, ClaimDepth(st, target),
                           ClaimDecimals(st))
           /\ res.structure.storage_volume_liters
                = RMulX(ClaimLitersPerMetre(st), ClaimDepth(st, target))
           /\ res.cost.capex_currency
                = RAddX(R(ClaimBase(st)),
                        RMulX(Norm(ClaimRateTenths(st), 10000),
                              res.structure.storage_volume_liters))
           /\ assessments[req[r].response.id].results = res

(* a preferred pit where the selector would choose a recharge well *)
C2_Witness ==
    \E r \in ReqIds :
        /\ Done(r)
        /\ req[r].response.inputs.preferred_structure = "pit"
        /\ SelectorChoice(req[r].response.inputs.rooftop_area_m2,
                          req[r].response.inputs.open_space_area_m2,
                          req[r].response.results.aquifer.gw_depth_m) = "recharge_well"
        /\ req[r].response.results.structure.structure_type = "pit"

----------------------------------------------------------------------------
NonNeg(x) == x[1] >= 0 /\ x[2] > 0

Results(r) == req[r].response.results

Failed(r) == req[r].pc = "failed"

(* the requests whose insert was committed: those that returned and those  *)
(* that failed afterwards, in the refresh of the row                       *)
Stored(r) == Done(r) \/ (Failed(r) /\ req[r].error = "refresh")

(* C11: in every assessment result, water_savings_liters_per_year is the   *)
(* annual runoff volume unchanged and payback_years is                     *)
(* capex / max(1.0, annual runoff / 1000).                                 *)
C11_BenefitAndPayback ==
    \A r \in ReqIds : Done(r) =>
        LET runoff == Results(r).runoff.annual_runoff_volume_liters
            kl == RDivX(runoff, R(1000))
        IN /\ Results(r).cost.water_savings_liters_per_year = runoff
           /\ Results(r).cost.payback_years
                = RDivX(Results(r).cost.capex_currency, IF RLt(kl, R(1)) THEN R(1) ELSE kl)

(* a result whose runoff is above 1000 litres *)
C11_Witness ==
    \E r \in ReqIds :
        /\ Done(r)
        /\ RLt(R(1000), Results(r).runoff.annual_runoff_volume_liters)
        /\ RLt(Results(r).cost.payback_years, Results(r).cost.capex_currency)

(* C12: in every assessment result, recharge_potential_liters is           *)
(* min(annual_runoff_volume_liters, storage_volume_liters x 12), hence     *)
(* never above the annual runoff nor above twelve times the storage.       *)
C12_RechargeBound ==
    \A r \in ReqIds : Done(r) =>
        LET runoff == Results(r).runoff.annual_runoff_volume_liters
            cap == RMulX(Results(r).structure.storage_volume_liters, R(12))
            recharge == Results(r).recharge_potential_liters
        IN /\ recharge = (IF RLt(cap, runoff) THEN cap ELSE runoff)
           /\ RLe(recharge, runoff)
           /\ RLe(recharge, cap)

(* a result whose runoff is the smaller of the two *)
C12_Witness ==
    \E r \in ReqIds :
        /\ Done(r)
        /\ RLt(R(0), Results(r).runoff.annual_runoff_volume_liters)
        /\ RLt(Results(r).runoff.annual_runoff_volume_liters,
               RMulX(Results(r).structure.storage_volume_liters, R(12)))
        /\ Results(r).recharge_potential_liters
             = Results(r).runoff.annual_runoff_volume_liters

(* C13: for non-negative areas and a context with non-negative rainfall    *)
(* and groundwater depth, the annual runoff, every dimension, the storage, *)
(* capex, opex, the water savings, payback_years and                       *)
(* recharge_potential_liters are non-negative.                             *)
C13_NonNegative ==
    \A r \in ReqIds :
        (/\ Done(r)
         /\ NonNeg(req[r].response.inputs.rooftop_area_m2)
         /\ NonNeg(req[r].response.inputs.open_space_area_m2)
         /\ NonNeg(Results(r).runoff.annual_rainfall_mm)
         /\ NonNeg(Results(r).aquifer.gw_depth_m))
        => /\ NonNeg(Results(r).runoff.annual_runoff_volume_liters)
           /\ \A k \in DOMAIN Results(r).structure.dimensions :
                  NonNeg(Results(r).structure.dimensions[k])
           /\ NonNeg(Results(r).structure.storage_volume_liters)
           /\ NonNeg(Results(r).cost.capex_currency)
           /\ NonNeg(Results(r).cost.opex_currency_per_year)
           /\ NonNeg(Results(r).cost.water_savings_liters_per_year)
           /\ NonNeg(Results(r).cost.payback_years)
           /\ NonNeg(Results(r).recharge_potential_liters)

(* a result for a roof of area zero: runoff and recharge are zero *)
C13_Witness ==
    \E r \in ReqIds :
        /\ Done(r)
        /\ req[r].response.inputs.rooftop_area_m2 = R(0)
        /\ Results(r).recharge_potential_liters = R(0)
        /\ RLt(R(0), Results(r).structure.storage_volume_liters)

(* C14: for non-negative site inputs and any context, the five stages are  *)
(* total: no request fails with a division by zero and every number of     *)
(* the result is defined, also when the roof area or the runoff is 0.      *)
C14_Total ==
    \A r \in ReqIds :
        /\ req[r].error # "ZeroDivisionError"
        /\ Done(r) =>
            /\ Results(r).runoff.annual_runoff_volume_liters[2] > 0
            /\ Results(r).structure.dimensions.depth_m[2] > 0
            /\ Results(r).structure.storage_volume_liters[2] > 0
            /\ Results(r).cost.capex_currency[2] > 0
            /\ Results(r).cost.payback_years[2] > 0

(* a zero runoff: payback_years divides by the floor 1.0 *)
C14_Witness ==
    \E r \in ReqIds :
        /\ Done(r)
        /\ Results(r).runoff.annual_runoff_volume_liters = R(0)
        /\ Results(r).cost.payback_years = Results(r).cost.capex_currency

(* what the specification calls an invalid submission *)
ClaimInvalid(body) ==
    \/ body.rooftop_area_m2[1] < 0
    \/ body.open_space_area_m2[1] < 0
    \/ body.num_dwellers < 0
    \/ body.preferred_structure \notin StructureTypes \cup {None}

(* C15: a submission with a negative rooftop area, a negative open-space   *)
(* area, a negative num_dwellers or a preferred_structure outside the      *)
(* enumeration is rejected before any stage runs and nothing is persisted  *)
(* for it.                                                                 *)
C15_InvalidRejected ==
    \A r \in ReqIds :
        (subs[r] # NoSubmission /\ ClaimInvalid(subs[r].body))
        => /\ req[r].pc \in {"idle", "rejected"}
           /\ assessments = <<>>
           /\ users = InitialUsers

(* C16: when a step of create_assessment fails (the context fetch, a       *)
(* stage of the pipeline, the construction of the result; the commit of    *)
(* the insert is included here), the request ends there and no Assessment  *)
(* record is stored for it: the records are those of the requests whose    *)
(* insert was committed, a failed request has no response and takes no     *)
(* further step.                                                           *)
C16_FailureStoresNothing ==
    /\ [](/\ Len(assessments) = Cardinality({r \in ReqIds : Stored(r)})
          /\ \A r \in ReqIds : Failed(r) => req[r].response = <<>>)
    /\ [][\A r \in ReqIds :
            /\ Failed(r) => req'[r] = req[r]
            /\ (~Failed(r) /\ req'[r].pc = "failed" /\ req'[r].error # "refresh")
                 => assessments' = assessments]_vars

(* a request that failed at the commit next to one that succeeded *)
C16_Witness ==
    \E r1, r2 \in ReqIds :
        /\ Failed(r1)
        /\ req[r1].error = "commit"
        /\ req[r1].user_id # 0
        /\ Done(r2)
        /\ Len(assessments) = 1

(* C17: the only write of create_assessment to the store is the one        *)
(* Assessment insert after the engine has returned; nothing is written     *)
(* before or during the pipeline.                                          *)
C17_OnlyWriteIsAssessmentInsert ==
    /\ users = InitialUsers
    /\ Len(assessments) = Cardinality({r \in ReqIds : Stored(r)})

(* C18: every stored results snapshot is the value computed when it was    *)
(* created: no step changes or deletes a row, a successful create adds one *)
(* row with a fresh id, and list and get return the stored snapshot.       *)
C18_SnapshotKept ==
    /\ [](/\ \A i \in 1 .. Len(assessments) : assessments[i].id = i
          /\ \A r \in ReqIds : Done(r) =>
                /\ req[r].response.id \in 1 .. Len(assessments)
                /\ assessments[req[r].response.id].results = Results(r)
                /\ \A k \in ReqIds : (Done(k) /\ k # r) =>
                                        req[k].response.id # req[r].response.id
          /\ (reads.op = "get" /\ reads.status = 200) =>
                /\ reads.body.id = reads.assessment_id
                /\ reads.body.results = assessments[reads.assessment_id].results
          /\ reads.op = "list" =>
                \A i \in DOMAIN reads.body :
                    reads.body[i].results = assessments[reads.body[i].id].results)
    /\ [][/\ Len(assessments') \in {Len(assessments), Len(assessments) + 1}
          /\ \A i \in 1 .. Len(assessments) : assessments'[i] = assessments[i]
          /\ \A r \in ReqIds : (~Done(r) /\ req'[r].pc = "done") =>
                /\ Len(assessments') = Len(assessments) + 1
                /\ req'[r].response.id = Len(assessments')]_vars

(* a get of the preferred pit after a second assessment was stored *)
C18_Witness ==
    /\ reads.op = "get"
    /\ reads.status = 200
    /\ reads.assessment_id = 1
    /\ reads.body.results.structure.structure_type = "pit"
    /\ reads.body.results.runoff.annual_rainfall_mm = R(1200)
    /\ Len(assessments) = 2

C20_AloneResult ==
    \A r \in ReqIds : Done(r) =>
        /\ req[r].response.inputs = subs[r].body
        /\ Results(r) = assessment_results(subs[r].body, req[r].annual_mm, req[r].aquifer)

(* the second request, with another payload, began and finished while the  *)
(* first was suspended in the rainfall fetch                               *)
C20_Witness ==
    \E r1, r2 \in ReqIds :
        /\ r1 < r2
        /\ Done(r1)
        /\ Done(r2)
        /\ req[r2].response.id < req[r1].response.id
        /\ subs[r1].body # subs[r2].body

(* C21: with rainfall 800 mm, a roof of 100 m2, coefficient 0.85, open     *)
(* space 10 m2, groundwater at 8 m and no preferred structure, the result  *)
(* has runoff 68000 L, type pit, a target of 17000 L that the storage      *)
(* meets, the reported depth 18.89 m above the floor of 1.2 m, and         *)
(* capex = 20000 + 3.0 x (storage / 1000).                                 *)
C21_EndToEnd ==
    \A r \in ReqIds :
        (/\ Done(r)
         /\ req[r].response.inputs.rooftop_area_m2 = R(100)
         /\ req[r].response.inputs.open_space_area_m2 = R(10)
         /\ req[r].response.inputs.preferred_structure = None
         /\ Results(r).runoff.annual_rainfall_mm = R(800)
         /\ Results(r).aquifer.gw_depth_m = R(8))
        => /\ Results(r).runoff.runoff_coefficient = Norm(85, 100)
           /\ Results(r).runoff.annual_runoff_volume_liters = R(68000)
           /\ Results(r).structure.structure_type = "pit"
           /\ RMulX(Results(r).runoff.annual_runoff_volume_liters, Norm(25, 100)) = R(17000)
           /\ RLe(R(17000), Results(r).structure.storage_volume_liters)
           /\ Results(r).structure.dimensions.depth_m = Norm(1889, 100)
           /\ RLt(Norm(12, 10), Results(r).structure.dimensions.depth_m)
           /\ Results(r).cost.capex_currency
                = RAddX(R(20000), RMulX(R(3), RDivX(Results(r).structure.storage_volume_liters,
                                                    R(1000))))

(* the scenario: the rainfall request fails (800) and the depth query      *)
(* fails (8.0)                                                             *)
C21_Witness ==
    \E r \in ReqIds :
        /\ Done(r)
        /\ req[r].response.inputs.rooftop_area_m2 = R(100)
        /\ req[r].response.inputs.open_space_area_m2 = R(10)
        /\ req[r].response.inputs.preferred_structure = None
        /\ Results(r).runoff.annual_rainfall_mm = R(800)
        /\ Results(r).aquifer.gw_depth_m = R(8)
        /\ Results(r).cost.capex_currency = R(20051)

(* C29: get_assessment returns the assessment with an id exactly when      *)
(* list_assessments for the same principal includes it, and 404 otherwise. *)
C29_GetIffListed ==
    \A user_email \in Principals, assessment_id \in ReqIds :
        get_assessment(assessment_id, user_email).status = 200
            <=> \E i \in DOMAIN list_assessments(user_email) :
                    list_assessments(user_email)[i].id = assessment_id

----------------------------------------------------------------------------
(* backend/app/main.py, backend/app/middleware/rate_limiter.py,            *)
(* backend/app/middleware/security_headers.py                              *)
(*                                                                         *)
(* add_middleware puts each middleware in front of the ones added before,  *)
(* so a request passes the server error handler, CORSMiddleware,           *)
(* RateLimiter, SecurityHeadersMiddleware and the exception handler of the *)
(* router, in this order, and its response passes them in reverse.  The    *)
(* clock time.time() is read in whole seconds.                             *)

enable_rate_limit == TRUE

rate_limit_requests == 2

rate_limit_timeframe == 2

app_env == "development"

MaxTime == 3

MaxInflight == 2

(* request.client: the host of the peer, or None *)
Hosts == {"10.0.0.1", None}

(* request.url.path, character by character *)
UrlPaths ==
    {<<"/">>,
     <<"/", "d", "o", "c", "s">>,
     <<"/", "o", "p", "e", "n", "a", "p", "i", ".", "j", "s", "o", "n">>,
     <<"/", "d", "o", "c">>,
     <<"/", "a", "s", "s", "e", "s", "s", "m", "e", "n", "t", "s">>}

Requests == [client : Hosts, path : UrlPaths]

startswith(path, prefix) ==
    Len(path) >= Len(prefix) /\ SubSeq(path, 1, Len(prefix)) = prefix

client_ip_of(request) == IF request.client # None THEN request.client ELSE "unknown"

is_exempt(path) ==
    \/ path = <<"/">>
    \/ startswith(path, <<"/", "d", "o", "c", "s">>)
    \/ startswith(path, <<"/", "o", "p", "e", "n", "a", "p", "i">>)

(* request_counts is a defaultdict(list) *)
counts_of(counts, client_ip) ==
    IF client_ip \in DOMAIN counts THEN counts[client_ip] ELSE <<>>

counts_set(counts, client_ip, timestamps) ==
    [k \in DOMAIN counts \cup {client_ip} |->
        IF k = client_ip THEN timestamps ELSE counts[k]]

(* variant: a timestamp exactly one timeframe old is kept *)
fresh_inclusive(timestamps, current_time) ==
    SelectSeq(timestamps, LAMBDA timestamp : current_time - timestamp <= rate_limit_timeframe)

(* the timestamps the cleanup keeps *)
fresh(timestamps, current_time) ==
    SelectSeq(timestamps, LAMBDA timestamp : current_time - timestamp < rate_limit_timeframe)

(* variant: one request more than the limit *)
limit_exceeded_strict(timestamps) == Len(timestamps) > rate_limit_requests

limit_exceeded(timestamps) == Len(timestamps) >= rate_limit_requests

str(x) == ToString(x)

set_headers(headers, new) ==
    [k \in DOMAIN headers \cup DOMAIN new |-> IF k \in DOMAIN new THEN new[k] ELSE headers[k]]

RetryAfter == "Retry-After" :> str(rate_limit_timeframe)

(* the headers SecurityHeadersMiddleware.dispatch sets on a response *)
security_headers ==
    LET base == ("X-Content-Type-Options" :> "nosniff")
                @@ ("X-Frame-Options" :> "DENY")
                @@ ("X-XSS-Protection" :> "1; mode=block")
                @@ ("Strict-Transport-Security" :> "max-age=31536000; includeSubDomains")
                @@ ("Referrer-Policy" :> "strict-origin-when-cross-origin")
                @@ ("Permissions-Policy" :>
                        "camera=(), microphone=(), geolocation=(self), payment=()")
    IN IF app_env = "production"
       THEN base @@ ("Content-Security-Policy" :>
                        "default-src 'self'; img-src 'self' data:; script-src 'self'; style-src 'self' 'unsafe-inline'; font-src 'self' data:; connect-src 'self'")
       ELSE base

(* the headers RateLimiter.dispatch sets on the response of call_next *)
rate_limit_headers(count, current_time) ==
    LET remaining == rate_limit_requests - count
    IN ("X-RateLimit-Limit" :> str(rate_limit_requests))
       @@ ("X-RateLimit-Remaining" :> str(IF remaining > 0 THEN remaining ELSE 0))
       @@ ("X-RateLimit-Reset" :> str(current_time + rate_limit_timeframe))

(* the downstream calls of a client during the last timeframe *)
log_of(client_ip) == counts_of(passed, client_ip)

(* time.time() advances *)
HttpTick ==
    /\ now < MaxTime
    /\ now' = now + 1
    /\ passed' = [k \in DOMAIN passed |->
                    SelectSeq(passed[k], LAMBDA t : now + 1 - t < rate_limit_timeframe)]
    /\ UNCHANGED <<calcVars, apiVars, chatVars, boardVars, request_counts, inflight, event>>

(* RateLimiter.dispatch up to call_next or to the 429 response.  A request *)
(* in call_next keeps the locals the rest of dispatch reads.  The event    *)
(* records what the request found: young, the number of the client's       *)
(* recorded timestamps younger than the timeframe, and expired, whether    *)
(* the oldest recorded one is at least a timeframe old.                    *)
HttpDispatch ==
    \E request \in Requests :
        LET client_ip == client_ip_of(request)
            current_time == now
            before == counts_of(request_counts, client_ip)
            kept == fresh(before, current_time)
            found == [NoEvent EXCEPT
                        !.kind = "call_next",
                        !.young = Cardinality({i \in DOMAIN before :
                                     current_time - before[i] < rate_limit_timeframe}),
                        !.expired = before # <<>>
                                    /\ current_time - before[1] >= rate_limit_timeframe]
        IN /\ IF ~enable_rate_limit \/ is_exempt(request.path)
              THEN /\ BagCardinality(inflight) < MaxInflight
                   /\ inflight' = inflight (+) SetToBag({[limited |-> FALSE,
                                        exempt |-> is_exempt(request.path),
                                        client_ip |-> "", current_time |-> 0]})
                   /\ event' = [NoEvent EXCEPT !.kind = "call_next",
                                               !.exempt = is_exempt(request.path)]
                   /\ passed' = IF is_exempt(request.path) THEN passed
                                ELSE counts_set(passed, client_ip,
                                                Append(log_of(client_ip), now))
                   /\ UNCHANGED request_counts
              ELSE IF limit_exceeded(kept)
              THEN /\ request_counts' = counts_set(request_counts, client_ip, kept)
                   /\ event' = [found EXCEPT !.kind = "response", !.status = 429,
                                             !.headers = RetryAfter,
                                             !.recorded = Len(kept)]
                   /\ UNCHANGED <<inflight, passed>>
              ELSE /\ BagCardinality(inflight) < MaxInflight
                   /\ request_counts' = counts_set(request_counts, client_ip,
                                                   Append(kept, current_time))
                   /\ inflight' = inflight (+) SetToBag({[limited |-> TRUE,
                                        exempt |-> FALSE, client_ip |-> client_ip,
                                        current_time |-> current_time]})
                   /\ event' = found
                   /\ passed' = counts_set(passed, client_ip, Append(log_of(client_ip), now))
           /\ UNCHANGED <<calcVars, apiVars, chatVars, boardVars, now>>

(* call_next returns a response, which passed SecurityHeadersMiddleware,   *)
(* or raises: an exception of the handler passes both middlewares and the  *)
(* server error handler answers 500.  recorded is the number of recorded   *)
(* timestamps of the client when the response leaves.                      *)
HttpRespond ==
    \E e \in BagToSet(inflight), raised \in BOOLEAN :
        LET count == Len(counts_of(request_counts, e.client_ip))
            inner == set_headers(<<>>, security_headers)
            outer == IF e.limited
                     THEN set_headers(inner, rate_limit_headers(count, e.current_time))
                     ELSE inner
        IN /\ inflight' = inflight (-) SetToBag({e})
           /\ event' = [NoEvent EXCEPT
                           !.kind = "response",
                           !.status = IF raised THEN 500 ELSE 200,
                           !.headers = IF raised THEN <<>> ELSE outer,
                           !.exempt = e.exempt,
                           !.recorded = IF e.limited THEN count ELSE 0]
           /\ UNCHANGED <<calcVars, apiVars, chatVars, boardVars,
                          now, request_counts, passed>>

NextHttp == HttpTick \/ HttpDispatch \/ HttpRespond

SpecHttp == InitCalc /\ [][NextHttp]_vars

SecurityHeaderNames ==
    {"X-Content-Type-Options", "X-Frame-Options", "X-XSS-Protection",
     "Strict-Transport-Security", "Referrer-Policy", "Permissions-Policy"}

RateLimitHeaderNames == {"X-RateLimit-Limit", "X-RateLimit-Remaining", "X-RateLimit-Reset"}

(* C24: every response the application returns, also the response to a    *)
(* client over its rate limit, carries the six security headers.           *)
C24_SecurityHeaders ==
    event.kind = "response" => SecurityHeaderNames \subseteq DOMAIN event.headers

(* C25: with rate limiting enabled every response to a request on a        *)
(* non-exempt path carries X-RateLimit-Limit, X-RateLimit-Remaining and    *)
(* X-RateLimit-Reset; Limit is rate_limit_requests and Remaining is        *)
(* max(0, rate_limit_requests - the client's recorded requests), which is  *)
(* in 0 .. Limit - 1.                                                      *)
C25_RateLimitHeaders ==
    (enable_rate_limit /\ event.kind = "response" /\ ~event.exempt) =>
        /\ RateLimitHeaderNames \subseteq DOMAIN event.headers
        /\ event.headers["X-RateLimit-Limit"] = ToString(rate_limit_requests)
        /\ \E remaining \in 0 .. rate_limit_requests - 1 :
            /\ event.headers["X-RateLimit-Remaining"] = ToString(remaining)
            /\ remaining = IF rate_limit_requests - event.recorded > 0
                           THEN rate_limit_requests - event.recorded ELSE 0

(* the number of copies of entry e the step adds to the requests in call_next *)
Entered(e) == CopiesIn(e, inflight') > CopiesIn(e, inflight)

(* C27: with rate limiting enabled, the requests of one client on          *)
(* non-exempt paths that are passed downstream with timestamps inside one  *)
(* window of rate_limit_timeframe seconds (t - timeframe, t] are at most   *)
(* rate_limit_requests, whatever requests are in call_next meanwhile; a    *)
(* request that finds rate_limit_requests recorded timestamps younger than *)
(* the timeframe is answered 429 and is not passed downstream; a step      *)
(* changes the recorded timestamps of one client only.                     *)
C27_WindowLimit ==
    /\ [](enable_rate_limit =>
            /\ \A c \in DOMAIN passed :
                Cardinality({i \in DOMAIN passed[c] :
                                now - passed[c][i] < rate_limit_timeframe})
                    <= rate_limit_requests
            /\ event.young >= rate_limit_requests =>
                    (event.kind = "response" /\ event.status = 429))
    /\ [][enable_rate_limit =>
            /\ (passed' # passed /\ now' = now) =>
                    (event'.kind = "call_next" /\ event'.young < rate_limit_requests)
            /\ \A c, d \in DOMAIN request_counts' :
                    (c # d /\ counts_of(request_counts', c) # counts_of(request_counts, c))
                        => counts_of(request_counts', d) = counts_of(request_counts, d)]_vars

(* a client at its limit is answered 429 while two requests are in call_next *)
C27_Witness ==
    /\ event.status = 429
    /\ event.young = rate_limit_requests
    /\ BagCardinality(inflight) = 2
    /\ \E e \in BagToSet(inflight) : e.limited /\ CopiesIn(e, inflight) = 2
    /\ \E c \in DOMAIN passed : Len(passed[c]) = rate_limit_requests

(* C28: a request answered 429 records no timestamp: the recorded          *)
(* timestamps grow only in a step that passes a request downstream, and    *)
(* after a 429 they are the ones younger than the timeframe that the       *)
(* request found.  A request that finds the oldest recorded timestamp at   *)
(* least rate_limit_timeframe seconds old is admitted.  A request to '/',  *)
(* '/docs*' or '/openapi*' is always admitted and never recorded.          *)
C28_RejectionsNotRecorded ==
    /\ [](/\ event.status = 429 => event.recorded = event.young
          /\ event.expired => (event.kind = "call_next" /\ event.status # 429)
          /\ event.exempt => event.status # 429)
    /\ [][/\ \A c \in DOMAIN request_counts' :
                Len(counts_of(request_counts', c)) > Len(counts_of(request_counts, c))
                    => (event'.kind = "call_next" /\ ~event'.exempt)
          /\ \A e \in BagToSet(inflight') :
                (Entered(e) /\ e.exempt) => request_counts' = request_counts]_vars

(* a request is admitted after the oldest recorded timestamp of its client *)
(* has expired, while the client has a timestamp of a later request        *)
C28_Witness ==
    /\ event.kind = "call_next"
    /\ event.expired
    /\ event.young = rate_limit_requests - 1
    /\ \E c \in DOMAIN request_counts : Len(request_counts[c]) = rate_limit_requests

----------------------------------------------------------------------------
(* backend/app/routers/chat.py: chat_streaming                             *)
(*                                                                         *)
(* The provider of one request is what the OpenAI client does for it: the  *)
(* deltas it delivers and the exception, if any, that create or the        *)
(* iteration raises once they are delivered.  An event is the JSON object  *)
(* of one 'data:' line.                                                    *)

MaxChunks == 2

NoError == <<>>

(* str(e) of the exception, word by word *)
ErrorMessages ==
    {<<"You", "exceeded", "your", "current", "Quota">>,
     <<"Error", "code:", "429">>,
     <<"Connection", "error.">>}

(* chunk.choices[0].delta.content: a text or None *)
Deltas == {"Rain", "", None}

Providers ==
    {[client |-> FALSE, chunks |-> <<>>, raises |-> NoError]}
    \cup [client : {TRUE},
          chunks : UNION {[1 .. k -> Deltas] : k \in 0 .. MaxChunks},
          raises : {NoError} \cup ErrorMessages]

lower(word) == IF word = "Quota" THEN "quota" ELSE word

contains(message, word, fold) ==
    \E i \in DOMAIN message : (IF fold THEN lower(message[i]) ELSE message[i]) = word

(* "quota" in str(e).lower() or "429" in str(e) *)
is_quota_error(message) == contains(message, "quota", TRUE) \/ contains(message, "429", FALSE)

UnavailableMessage ==
    "Chat service is currently unavailable. Please configure OPENAI_API_KEY in your environment variables."

QuotaMessage ==
    "I'm currently experiencing high demand and my API quota has been exceeded. Please try again later or contact support to add more credits to your OpenAI account."

sse_chunk(content) == "chunk" :> content

sse_error(message) == "error" :> <<"Error generating response:", message>>

(* the positions after pos of the deltas with a content *)
contents_after(chunks, pos) == {k \in DOMAIN chunks : k > pos /\ chunks[k] # None}

Min(S) == CHOOSE k \in S : \A j \in S : k <= j

(* chat_streaming returns the StreamingResponse; the generator has not run *)
ChatStart ==
    /\ chat.pc = "idle"
    /\ \E provider \in Providers :
        chat' = [pc |-> "start", provider |-> provider, pos |-> 0, events |-> <<>>]
    /\ UNCHANGED <<calcVars, apiVars, httpVars, boardVars>>

(* the generator runs to its next yield or to its end *)
ChatResume ==
    /\ chat.pc \in {"start", "unavailable", "loop", "last"}
    /\ LET provider == chat.provider
           next == contents_after(provider.chunks, chat.pos)
       IN chat' =
            IF chat.pc = "last"
            THEN [chat EXCEPT !.pc = "closed"]
            ELSE IF chat.pc = "unavailable"
            THEN [chat EXCEPT !.pc = "last",
                              !.events = Append(@, sse_chunk("[DONE]"))]
            ELSE IF ~provider.client
            THEN [chat EXCEPT !.pc = "unavailable",
                              !.events = Append(@, sse_chunk(UnavailableMessage))]
            ELSE IF next # {}
            THEN [chat EXCEPT !.pc = "loop", !.pos = Min(next),
                              !.events = Append(@, sse_chunk(provider.chunks[Min(next)]))]
            ELSE IF provider.raises = NoError
            THEN [chat EXCEPT !.pc = "last", !.pos = Len(provider.chunks),
                              !.events = Append(@, sse_chunk("[DONE]"))]
            ELSE IF is_quota_error(provider.raises)
            THEN [chat EXCEPT !.pc = "last", !.pos = Len(provider.chunks),
                              !.events = Append(@, sse_chunk(QuotaMessage))]
            ELSE [chat EXCEPT !.pc = "last", !.pos = Len(provider.chunks),
                              !.events = Append(@, sse_error(provider.raises))]
    /\ UNCHANGED <<calcVars, apiVars, httpVars, boardVars>>

NextChat == ChatStart \/ ChatResume

SpecChat == InitCalc /\ [][NextChat]_vars

IsDone(e) == DOMAIN e = {"chunk"} /\ e["chunk"] = "[DONE]"

(* C26: every /chat/stream response ends with a final event whose chunk is *)
(* '[DONE]' on every path (provider unavailable, normal streaming, quota   *)
(* fallback, other provider errors), and no event follows '[DONE]'.        *)
C26_EndsWithDone ==
    chat.pc = "closed" =>
        /\ chat.events # <<>>
        /\ IsDone(chat.events[Len(chat.events)])
        /\ \A i \in 1 .. Len(chat.events) - 1 : ~IsDone(chat.events[i])

----------------------------------------------------------------------------
(* backend/app/routers/groundwater.py: the gamification stores user_points, *)
(* user_badges and leaderboard and their handlers.  awards is the history   *)
(* of the award_points calls; board is the answer of the last call.         *)

MaxAwards == 3

MaxBadgeAwards == 1

UserIds == {1, 2}

PointValues == {-5, 0, 10}

badges == {1, 2, 3}

BadgeIds == {1, 9}

Limits == {-1, 0, 1, 10}

(* user_points.get(user_id, 0) *)
points_get(points_of, user_id) ==
    IF user_id \in DOMAIN points_of THEN points_of[user_id] ELSE 0

dict_set(d, key, value) ==
    [k \in DOMAIN d \cup {key} |-> IF k = key THEN value ELSE d[k]]

(* user_badges.get(user_id, []) *)
badges_get(badges_of, user_id) ==
    IF user_id \in DOMAIN badges_of THEN badges_of[user_id] ELSE <<>>

(* variant: an entry appended at every award *)
leaderboard_update_append(entries, user_id, points, at) ==
    Append(entries, [user_id |-> user_id, points |-> points, group |-> "community",
                     updated_at |-> at])

(* the first entry of the user updated, or an entry appended *)
leaderboard_update(entries, user_id, points, at) ==
    IF \E i \in DOMAIN entries : entries[i].user_id = user_id
    THEN LET first == CHOOSE i \in DOMAIN entries :
                        /\ entries[i].user_id = user_id
                        /\ \A j \in 1 .. i - 1 : entries[j].user_id # user_id
         IN [entries EXCEPT ![first].points = points, ![first].updated_at = at]
    ELSE Append(entries, [user_id |-> user_id, points |-> points, group |-> "community",
                          updated_at |-> at])

(* sorted(entries, key=points, reverse=True): entries of equal points keep *)
(* their order                                                             *)
RECURSIVE sorted_by_points(_)
sorted_by_points(entries) ==
    IF entries = <<>> THEN <<>>
    ELSE LET rest == sorted_by_points(Tail(entries))
             e == Head(entries)
             before == SelectSeq(rest, LAMBDA x : x.points > e.points)
             after == SelectSeq(rest, LAMBDA x : x.points <= e.points)
         IN before \o <<e>> \o after

(* entries[:limit] *)
slice_to(entries, limit) ==
    LET stop == IF limit >= 0
                THEN (IF limit < Len(entries) THEN limit ELSE Len(entries))
                ELSE (IF Len(entries) + limit > 0 THEN Len(entries) + limit ELSE 0)
    IN SubSeq(entries, 1, stop)

AwardPoints ==
    /\ Len(awards) < MaxAwards
    /\ \E user_id \in UserIds, points \in PointValues :
        LET total == points_get(user_points, user_id) + points
        IN /\ user_points' = dict_set(user_points, user_id, total)
           /\ leaderboard' = leaderboard_update(leaderboard, user_id, total, now)
           /\ awards' = Append(awards, [user_id |-> user_id, points |-> points])
           /\ board' = [op |-> "award_points", status |-> 200,
                        body |-> [user_id |-> user_id, points |-> total, updated_at |-> now]]
    /\ UNCHANGED <<calcVars, apiVars, httpVars, chatVars, user_badges>>

AwardBadge ==
    /\ \E user_id \in UserIds, badge_id \in BadgeIds :
        IF badge_id \notin badges
        THEN /\ board' = [op |-> "award_badge", status |-> 404, body |-> <<>>]
             /\ UNCHANGED user_badges
        ELSE /\ Len(badges_get(user_badges, user_id)) < MaxBadgeAwards
             /\ user_badges' = dict_set(user_badges, user_id,
                                  Append(badges_get(user_badges, user_id),
                                         [badge |-> badge_id, awarded_at |-> now]))
             /\ board' = [op |-> "award_badge", status |-> 200,
                          body |-> [badge |-> badge_id, awarded_at |-> now]]
    /\ UNCHANGED <<calcVars, apiVars, httpVars, chatVars, user_points, leaderboard, awards>>

GetUserPoints ==
    /\ \E user_id \in UserIds \cup {3} :
        board' = [op |-> "get_user_points", status |-> 200,
                  body |-> [user_id |-> user_id, points |-> points_get(user_points, user_id),
                            updated_at |-> now]]
    /\ UNCHANGED <<calcVars, apiVars, httpVars, chatVars,
                   user_points, user_badges, leaderboard, awards>>

GetLeaderboard ==
    /\ \E limit \in Limits :
        board' = [op |-> "get_leaderboard", status |-> 200,
                  body |-> slice_to(sorted_by_points(leaderboard), limit)]
    /\ UNCHANGED <<calcVars, apiVars, httpVars, chatVars,
                   user_points, user_badges, leaderboard, awards>>

NextBoard == AwardPoints \/ AwardBadge \/ GetUserPoints \/ GetLeaderboard

SpecBoard == InitCalc /\ [][NextBoard]_vars

(* the sum of the points the award_points calls gave the user *)
RECURSIVE Awarded(_, _)
Awarded(history, user_id) ==
    IF history = <<>> THEN 0
    ELSE Awarded(Tail(history), user_id)
         + (IF Head(history).user_id = user_id THEN Head(history).points ELSE 0)

AwardedUsers == {awards[i].user_id : i \in DOMAIN awards}

(* C30: after any award_points and award_badge calls the leaderboard has   *)
(* exactly one entry for each user that was awarded points and none for    *)
(* another user; the points of an entry are user_points[user], the sum of  *)
(* the points awarded to the user; get_user_points returns that sum, 0 for *)
(* a user never awarded; get_leaderboard returns its entries in            *)
(* non-increasing order of points.                                         *)
C30_Leaderboard ==
    /\ \A u \in AwardedUsers :
        Cardinality({i \in DOMAIN leaderboard : leaderboard[i].user_id = u}) = 1
    /\ \A i \in DOMAIN leaderboard :
        /\ leaderboard[i].user_id \in AwardedUsers
        /\ leaderboard[i].user_id \in DOMAIN user_points
        /\ leaderboard[i].points = user_points[leaderboard[i].user_id]
        /\ leaderboard[i].points = Awarded(awards, leaderboard[i].user_id)
    /\ board.op = "get_user_points" =>
            board.body.points = Awarded(awards, board.body.user_id)
    /\ board.op = "get_leaderboard" =>
            \A i, j \in DOMAIN board.body :
                i < j => board.body[i].points >= board.body[j].points

(* two users, the second awarded twice and ahead of the first, and the     *)
(* leaderboard read                                                        *)
C30_Witness ==
    /\ board.op = "get_leaderboard"
    /\ Len(board.body) = 2
    /\ Len(awards) = 3
    /\ Len(leaderboard) = 2
    /\ leaderboard[1].points < leaderboard[2].points
    /\ board.body[1].user_id = leaderboard[2].user_id
    /\ \E u \in DOMAIN user_badges : user_badges[u] # <<>>
====
